---- MODULE Spec2Model ----
(***************************************************************************)
(* cereal binary archives (include/cereal/archives/binary.hpp).            *)
(*                                                                         *)
(* BinaryOutputArchive writes raw bytes to a borrowed std::ostream through *)
(* its stream buffer and keeps a stack of stream positions for             *)
(* placeholders that are patched later; BinaryInputArchive reads raw bytes *)
(* from a borrowed std::istream.  The stream buffers are modelled as the   *)
(* standard seekable buffers (std::stringbuf, std::filebuf): a byte        *)
(* sequence with a put (or get) position, where a put at a position inside *)
(* the sequence overwrites and a put at its end extends it.  How many of   *)
(* the offered bytes the sink accepts is the environment's choice.  An      *)
(* Exception ends the session: it propagates out of the (de)serialization, *)
(* and no further call is made on the archive.                             *)
(***************************************************************************)
EXTENDS Integers, Sequences, FiniteSets

(* ------------------------------ bounds -------------------------------- *)

\* Longest output stream explored (bytes).
MaxLen == 3

\* Byte values explored are 0..MaxByte (a char has 256; 0 is the value
\* pushPosition fills with).
MaxByte == 1

\* Largest size passed to one saveBinary / pushPosition / loadBinary call.
MaxSize == 2

\* Deepest position stack explored.
MaxStack == 3

Byte == 0..MaxByte

Min(a, b) == IF a < b THEN a ELSE b

Max(a, b) == IF a < b THEN b ELSE a

\* All byte strings of length n.
Bytes(n) == [1..n -> Byte]

\* All buffers a caller can pass with a size of at most MaxSize.
Buffers == UNION {Bytes(n) : n \in 0..MaxSize}

(* ------------------------------ state --------------------------------- *)

VARIABLES
  itsStream,         \* BinaryOutputArchive::itsStream: [bytes, p] sink contents and put position
  itsPositionStack,  \* BinaryOutputArchive::itsPositionStack, top is the last element
  pc,                \* "idle"; "reset" while resetPosition's loop runs; "aborted" once a call threw
  itsStreamIn,       \* BinaryInputArchive::itsStream: [bytes, g] source contents and get position
  data,              \* the caller's buffer as loadBinary last left it (the bytes copied in)
  last,              \* the last call: [op, ret, req, got, arg]
  lifo,              \* history: [log, pops] markers outstanding before a run of popPosition calls, and its length
  patch,             \* history: progress of a reserve / write / return / overwrite / seek-to-tail sequence
  rt,                \* history: [vals, clean, open, sync, idx] values saved in order, and how many were loaded back
  wire,              \* history: [valid, cat, sum] what the calls since construction were asked to write, in order
  regions,           \* history: [list] the placeholder [m, size] of every marker outstanding
  session,           \* history: [kind, net] pushPosition calls less popPosition calls that returned false
  via                \* history: [adapter, value, name] the adapter last called and its argument

vars == <<itsStream, itsPositionStack, pc, itsStreamIn, data, last, lifo, patch, rt,
          wire, regions, session, via>>

\* What a call leaves in last.
Call(op, ret, req, got, arg) == [op |-> op, ret |-> ret, req |-> req, got |-> got, arg |-> arg]

(* ----------------------- the stream buffers --------------------------- *)

\* std::ostream::tellp on a stream whose failbit is clear.  Nothing here sets
\* failbit: the archive writes through rdbuf() directly, and every seek
\* below targets a position inside the sequence.
tellp(s) == s.p

\* std::ostream::seekp(pos)
seekp(s, off) == [s EXCEPT !.p = off]

\* std::ostream::seekp(0, std::ios_base::end)
seekp_end(s) == [s EXCEPT !.p = Len(s.bytes)]

\* A sink that inserts at the put position instead of overwriting.
sputn_insert(s, d, n) ==
  [bytes |-> SubSeq(s.bytes, 1, s.p) \o SubSeq(d, 1, n) \o SubSeq(s.bytes, s.p + 1, Len(s.bytes)),
   p |-> s.p + n]

\* A sink that always puts at its end, whatever the put position.
sputn_append(s, d, n) ==
  [bytes |-> s.bytes \o SubSeq(d, 1, n), p |-> Len(s.bytes) + n]

\* A sink that puts the count of the characters before them.
sputn_prefixed(s, d, n) ==
  [bytes |-> [i \in 1..Max(Len(s.bytes), s.p + n + 1) |->
                IF i = s.p + 1 THEN n
                ELSE IF i > s.p + 1 /\ i <= s.p + n + 1 THEN d[i - s.p - 1] ELSE s.bytes[i]],
   p |-> s.p + n + 1]

\* std::streambuf::sputn(d, size) when the sink accepts n <= size characters:
\* they replace what is at the put position, or extend the sequence.
sputn(s, d, n) ==
  [bytes |-> [i \in 1..Max(Len(s.bytes), s.p + n) |->
                IF i > s.p /\ i <= s.p + n THEN d[i - s.p] ELSE s.bytes[i]],
   p |-> s.p + n]

\* std::streambuf::sputc(c): accepted, or refused (returns EOF).
sputc(s, c, accepted) == IF accepted THEN sputn(s, <<c>>, 1) ELSE s

\* std::streambuf::sgetn(buf, size): as many characters as remain, up to size.
sgetn_count(s, size) == Min(size, Len(s.bytes) - s.g)

(* -------------------------- BinaryOutputArchive ----------------------- *)

\* A test that only catches a sink reporting more than was asked.
shortWrite_more(writtenSize, size) == writtenSize > size

\* The test in saveBinary that decides to throw.
shortWrite(writtenSize, size) == writtenSize # size

\* A saveBinary that puts the stream back as it was before it throws.
saveBinary_rollback(d, size, writtenSize) ==
  /\ pc = "idle"
  /\ tellp(itsStream) + size <= MaxLen
  /\ itsStream' = IF shortWrite(writtenSize, size) THEN itsStream
                  ELSE sputn(itsStream, d, writtenSize)
  /\ last' = Call("saveBinary", IF shortWrite(writtenSize, size) THEN "Exception" ELSE "void",
                   size, writtenSize, d)
  /\ pc' = IF shortWrite(writtenSize, size) THEN "aborted" ELSE pc
  /\ UNCHANGED <<itsPositionStack, itsStreamIn, data>>

\* saveBinary(data, size): the sink accepts writtenSize of the size bytes.
saveBinary(d, size, writtenSize) ==
  /\ pc = "idle"
  /\ tellp(itsStream) + size <= MaxLen
  /\ itsStream' = sputn(itsStream, d, writtenSize)
  /\ last' = Call("saveBinary", IF shortWrite(writtenSize, size) THEN "Exception" ELSE "void",
                   size, writtenSize, d)
  /\ pc' = IF shortWrite(writtenSize, size) THEN "aborted" ELSE pc
  /\ UNCHANGED <<itsPositionStack, itsStreamIn, data>>

\* A loop that stops one iteration early.
RECURSIVE putZeros_early(_, _, _, _)
putZeros_early(s, i, size, ok) ==
  IF i >= size THEN s ELSE putZeros_early(sputc(s, 0, ok[i]), i + 1, size, ok)

\* A loop that fills with '\1'.
RECURSIVE putZeros_ones(_, _, _, _)
putZeros_ones(s, i, size, ok) ==
  IF i > size THEN s ELSE putZeros_ones(sputc(s, 1, ok[i]), i + 1, size, ok)

\* The loop of pushPosition from iteration i on: one sputc('\0') per
\* iteration, its return value ignored.  ok[i] says whether the sink accepts
\* the character of iteration i.
RECURSIVE putZeros(_, _, _, _)
putZeros(s, i, size, ok) ==
  IF i > size THEN s ELSE putZeros(sputc(s, 0, ok[i]), i + 1, size, ok)

\* Recording the end of the stream instead of the put position.
markedPosition_end(s) == Len(s.bytes)

\* The position pushPosition records.
markedPosition(s) == tellp(s)

\* pushPosition(size)
pushPosition(size, ok) ==
  /\ pc = "idle"
  /\ Len(itsPositionStack) < MaxStack
  /\ tellp(itsStream) + size <= MaxLen
  /\ itsPositionStack' = Append(itsPositionStack, markedPosition(itsStream))
  /\ itsStream' = putZeros(itsStream, 1, size, ok)
  /\ last' = Call("pushPosition", "void", size, Cardinality({i \in 1..size : ok[i]}), <<>>)
  /\ UNCHANGED <<pc, itsStreamIn, data>>

\* The oldest marker instead of the newest.
top_oldest(stack) == stack[1]

\* The marker popPosition seeks to.
top(stack) == stack[Len(stack)]

\* Removing the oldest marker instead of the newest.
pop_oldest(stack) == Tail(stack)

\* The stack after std::stack::pop.
pop(stack) == SubSeq(stack, 1, Len(stack) - 1)

\* A popPosition that seeks and forgets to pop.
popPositionBody_noPop(ret) ==
  IF itsPositionStack = <<>>
  THEN /\ itsStream' = seekp_end(itsStream)
       /\ itsPositionStack' = itsPositionStack
       /\ ret = "true"
  ELSE /\ itsStream' = seekp(itsStream, top(itsPositionStack))
       /\ itsPositionStack' = itsPositionStack
       /\ ret = "false"

\* The body of popPosition; ret is its return value.
popPositionBody(ret) ==
  IF itsPositionStack = <<>>
  THEN /\ itsStream' = seekp_end(itsStream)
       /\ itsPositionStack' = itsPositionStack
       /\ ret = "true"
  ELSE /\ itsStream' = seekp(itsStream, top(itsPositionStack))
       /\ itsPositionStack' = pop(itsPositionStack)
       /\ ret = "false"

\* popPosition()
popPosition ==
  /\ pc = "idle"
  /\ \E ret \in {"true", "false"} :
       /\ popPositionBody(ret)
       /\ last' = Call("popPosition", ret, 0, 0, <<>>)
  /\ UNCHANGED <<pc, itsStreamIn, data>>

\* resetPosition() is entered: its loop has not yet run.
resetPosition ==
  /\ pc = "idle"
  /\ pc' = "reset"
  /\ last' = Call("resetPosition", "running", 0, 0, <<>>)
  /\ UNCHANGED <<itsStream, itsPositionStack, itsStreamIn, data>>

\* One iteration of while( !popPosition() ); the loop ends, and
\* resetPosition returns, when popPosition returns true.  last.got counts
\* the iterations, up to the most the deepest stack explored needs.
resetPositionLoop ==
  /\ pc = "reset"
  /\ \E ret \in {"true", "false"} :
       /\ popPositionBody(ret)
       /\ pc' = IF ret = "true" THEN "idle" ELSE "reset"
       /\ last' = Call("resetPosition", IF ret = "true" THEN "void" ELSE "running",
                        0, Min(last.got + 1, MaxStack + 1), <<>>)
  /\ UNCHANGED <<itsStreamIn, data>>

(* -------------------------- BinaryInputArchive ------------------------ *)

\* BinaryInputArchive(stream) over a source holding the bytes written so far.
BinaryInputArchive ==
  /\ pc = "idle"
  /\ itsStreamIn' = [bytes |-> itsStream.bytes, g |-> 0]
  /\ data' = <<>>
  /\ last' = Call("BinaryInputArchive", "void", 0, 0, <<>>)
  /\ UNCHANGED <<itsStream, itsPositionStack, pc>>

\* A test that only catches a source reporting more than was asked.
shortRead_more(readSize, size) == readSize > size

\* The test in loadBinary that decides to throw.
shortRead(readSize, size) == readSize # size

\* loadBinary(data, size)
loadBinary(size) ==
  /\ pc = "idle"
  /\ LET readSize == sgetn_count(itsStreamIn, size) IN
       /\ data' = SubSeq(itsStreamIn.bytes, itsStreamIn.g + 1, itsStreamIn.g + readSize)
       /\ itsStreamIn' = [itsStreamIn EXCEPT !.g = @ + readSize]
       /\ last' = Call("loadBinary", IF shortRead(readSize, size) THEN "Exception" ELSE "void",
                        size, readSize, <<>>)
       /\ pc' = IF shortRead(readSize, size) THEN "aborted" ELSE pc
  /\ UNCHANGED <<itsStream, itsPositionStack>>

(* ------------------------------ adapters ------------------------------ *)
(* A value is modelled by its object representation: an arithmetic value   *)
(* t is the sequence of its sizeof(t) bytes, an array is the sequence of   *)
(* its elements, each the sequence of its bytes, laid out contiguously.    *)

\* sizeof(T) of the arithmetic types that fit the largest call explored.
ArithmeticSizes == {w \in {1, 2, 4, 8, 16} : w <= MaxSize}

\* A layout with the elements in reverse index order.
RECURSIVE Flatten_reversed(_)
Flatten_reversed(array) ==
  IF array = <<>> THEN <<>> ELSE Flatten_reversed(Tail(array)) \o Head(array)

\* The memory an array occupies: its elements one after the other.
RECURSIVE Flatten(_)
Flatten(array) == IF array = <<>> THEN <<>> ELSE Head(array) \o Flatten(Tail(array))

\* traits::sizeof_array<T>(): the number of elements.
sizeof_array(array) == Len(array)

\* sizeof(typename std::remove_all_extents<T>::type)
sizeof_element(array) == Len(array[1])

\* A size that forgets the element width.
arrayBytes_count(array) == sizeof_array(array)

\* The size the array adapters pass.
arrayBytes(array) == sizeof_array(array) * sizeof_element(array)

\* save(ar, t), T arithmetic
save_arithmetic(t, writtenSize) ==
  /\ writtenSize <= Len(t)
  /\ saveBinary(t, Len(t), writtenSize)

\* load(ar, t), T arithmetic of w bytes
load_arithmetic(w) == loadBinary(w)

\* save(ar, array)
save_array(array, writtenSize) ==
  /\ writtenSize <= arrayBytes(array)
  /\ saveBinary(Flatten(array), arrayBytes(array), writtenSize)

\* load(ar, array) into the given array
load_array(array) == loadBinary(arrayBytes(array))

\* save(ar, bd), bd a BinaryData [data, size]
save_BinaryData(bd, writtenSize) ==
  /\ writtenSize <= bd.size
  /\ saveBinary(bd.data, bd.size, writtenSize)

\* load(ar, bd), bd a BinaryData of the given size
load_BinaryData(size) == loadBinary(size)

\* The stream after save(ar, t) of every element of array in index order,
\* each accepted in full.
RECURSIVE saveElements(_, _)
saveElements(s, array) ==
  IF array = <<>> THEN s
  ELSE saveElements(sputn(s, Head(array), Len(Head(array))), Tail(array))

\* load(ar, t) of n elements of w bytes one after the other: the elements
\* as loaded, and the source after them.
RECURSIVE loadElements(_, _, _)
loadElements(s, n, w) ==
  IF n = 0 THEN [elems |-> <<>>, s |-> s]
  ELSE LET readSize == sgetn_count(s, w)
           t == SubSeq(s.bytes, s.g + 1, s.g + readSize)
           rest == loadElements([s EXCEPT !.g = @ + readSize], n - 1, w)
       IN [elems |-> <<t>> \o rest.elems, s |-> rest.s]

\* A value with its static type: [kind, v], v an arithmetic value, an array
\* or a BinaryData.
Typed(kind, v) == [kind |-> kind, v |-> v]

\* ar( value ) on a BinaryOutputArchive: the archive calls the save
\* overload for the value's type.
ar_save(value, writtenSize) ==
  CASE value.kind = "arithmetic" -> save_arithmetic(value.v, writtenSize)
    [] value.kind = "array" -> save_array(value.v, writtenSize)
    [] value.kind = "BinaryData" -> save_BinaryData(value.v, writtenSize)

\* ar( value ) on a BinaryInputArchive: the load overload for the value's type.
ar_load(value) ==
  CASE value.kind = "arithmetic" -> load_arithmetic(Len(value.v))
    [] value.kind = "array" -> load_array(value.v)
    [] value.kind = "BinaryData" -> load_BinaryData(value.v.size)

\* The bytes an adapter passes for a value.
ValueBytes(value) ==
  CASE value.kind = "arithmetic" -> value.v
    [] value.kind = "array" -> Flatten(value.v)
    [] value.kind = "BinaryData" -> value.v.data

\* A serialize that writes a one-byte tag before the value.
serialize_save_tagged(t, writtenSize) ==
  ar_save(Typed("BinaryData", [data |-> <<1>> \o ValueBytes(t.value),
                               size |-> 1 + Len(ValueBytes(t.value))]), writtenSize)

\* serialize(ar, t), t a NameValuePair [name, value], ar a BinaryOutputArchive
serialize_save(t, writtenSize) == ar_save(t.value, writtenSize)

\* serialize(ar, t), t a NameValuePair [name, value], ar a BinaryInputArchive
serialize_load(t) == ar_load(t.value)

(* ------------------------- history variables -------------------------- *)
(* lifo, patch, rt, wire, regions, session and via record what was called, *)
(* for the properties below; no operation of the archives reads them.      *)
(* Each is kept only in the behaviours of the specification that uses it   *)
(* (its field on, or session.kind).                                        *)

\* The markers of l.log not yet returned to.
Outstanding(l) == SubSeq(l.log, 1, Len(l.log) - Min(l.pops, Len(l.log)))

\* pushPosition was called with the put position at m.
LifoPush(m) ==
  IF lifo.on THEN [lifo EXCEPT !.log = Append(Outstanding(lifo), m), !.pops = 0] ELSE lifo

\* popPosition was called.
LifoPop == IF lifo.on THEN [lifo EXCEPT !.pops = Min(@ + 1, Len(lifo.log) + 1)] ELSE lifo

\* Any other call ends the run of consecutive popPosition calls.
LifoOther == IF lifo.on THEN [lifo EXCEPT !.log = Outstanding(lifo), !.pops = 0] ELSE lifo

NoLifo == [on |-> FALSE, log |-> <<>>, pops |-> 0]

NoPatch == [on |-> patch.on, phase |-> "none", pre |-> <<>>, s |-> 0, mid |-> <<>>, final |-> <<>>]

\* pushPosition(size) on a writer with no outstanding marker that is
\* positioned at the end of the stream begins a patch sequence.
PatchPush(size, got) ==
  IF patch.on /\ itsPositionStack = <<>> /\ tellp(itsStream) = Len(itsStream.bytes) /\ got = size
  THEN [NoPatch EXCEPT !.phase = "reserved", !.pre = itsStream.bytes, !.s = size]
  ELSE NoPatch

\* saveBinary(d, Len(d)) of which the sink accepted n bytes: an intervening
\* write, or the overwrite of the placeholder with the final value.
PatchSave(d, n) ==
  IF n # Len(d) THEN NoPatch
  ELSE IF patch.phase = "reserved" THEN [patch EXCEPT !.mid = @ \o d]
  ELSE IF patch.phase = "returned" /\ Len(d) = patch.s
       THEN [patch EXCEPT !.phase = "patched", !.final = d]
  ELSE NoPatch

\* popPosition: the return to the mark, or the seek to the tail.
PatchPop ==
  IF patch.phase = "reserved" THEN [patch EXCEPT !.phase = "returned"]
  ELSE IF patch.phase = "patched" THEN [patch EXCEPT !.phase = "done"]
  ELSE NoPatch

\* A value whose object representation is rep was saved.
\* After a short write nothing more is recorded.
RtSave(rep, ret) ==
  IF rt.clean /\ ret = "void" THEN [rt EXCEPT !.vals = Append(@, rep)]
  ELSE [rt EXCEPT !.vals = <<>>, !.clean = FALSE]

\* A value of size bytes was loaded: the next one saved, if the loads so far
\* asked for the saved values' sizes in the order they were saved.
RtLoad(size) ==
  IF rt.sync /\ rt.idx < Len(rt.vals) /\ Len(rt.vals[rt.idx + 1]) = size
  THEN [rt EXCEPT !.idx = @ + 1]
  ELSE [rt EXCEPT !.sync = FALSE, !.idx = 0]

NoRt == [vals |-> <<>>, clean |-> TRUE, open |-> FALSE, sync |-> TRUE, idx |-> 0]

NoWire == [on |-> FALSE, valid |-> TRUE, cat |-> <<>>, sum |-> 0]

\* The calls so far are no longer only saveBinary and pushPosition calls
\* accepted in full.
WireStop == IF wire.on THEN [wire EXCEPT !.valid = FALSE, !.cat = <<>>, !.sum = 0] ELSE wire

\* saveBinary(d, size) of which the sink accepted n bytes.
WireSave(d, size, n) ==
  IF wire.on /\ wire.valid /\ n = size
  THEN [wire EXCEPT !.cat = @ \o d, !.sum = @ + size]
  ELSE WireStop

\* pushPosition(size) of which the sink accepted got bytes.
WirePush(size, got) ==
  IF wire.on /\ wire.valid /\ got = size
  THEN [wire EXCEPT !.cat = @ \o [i \in 1..size |-> 0], !.sum = @ + size]
  ELSE WireStop

NoRegions == [on |-> FALSE, list |-> <<>>]

\* The placeholders whose markers are outstanding.  Those of the markers a
\* resetPosition discarded stay in regions.list until the next call.
Live == IF last.op = "resetPosition" /\ pc = "idle" THEN <<>> ELSE regions.list

\* pushPosition(size) at the put position, of which the sink accepted got
\* bytes: they are the placeholder, all of it when got = size.
RegionPush(size, got) ==
  IF regions.on
  THEN [regions EXCEPT !.list = Append(Live, [m |-> tellp(itsStream), size |-> got])]
  ELSE regions

\* popPosition took the newest marker off the stack.
RegionPop ==
  IF regions.on
  THEN [regions EXCEPT !.list = SubSeq(Live, 1, Len(Live) - 1)]
  ELSE regions

\* A call that leaves the markers alone.
RegionKeep == IF regions.on THEN [regions EXCEPT !.list = Live] ELSE regions

NoSession == [kind |-> "off", net |-> 0]

\* pushPosition was called.
SessionPush == IF session.kind = "off" THEN session ELSE [session EXCEPT !.net = @ + 1]

\* popPosition was called and returned ret.  The count stops at -1.
SessionPop(ret) ==
  IF session.kind # "off" /\ ret = "false"
  THEN [session EXCEPT !.net = Max(@ - 1, 0 - 1)]
  ELSE session

NoVia == [on |-> {}, adapter |-> "none", value |-> <<>>, name |-> ""]

\* An adapter was called on value (under name, for a NameValuePair); via.on
\* is the set of adapters whose calls are recorded.
Via(adapter, value, name) ==
  IF adapter \in via.on
  THEN [via EXCEPT !.adapter = adapter, !.value = value, !.name = name]
  ELSE [NoVia EXCEPT !.on = via.on]

(* ----------------------------- behaviours ----------------------------- *)

\* A BinaryOutputArchive constructed on an empty stream.
InitArchives ==
  /\ itsStream = [bytes |-> <<>>, p |-> 0]
  /\ itsPositionStack = <<>>
  /\ pc = "idle"
  /\ itsStreamIn = [bytes |-> <<>>, g |-> 0]
  /\ data = <<>>
  /\ last = Call("construct", "void", 0, 0, <<>>)

Init ==
  /\ InitArchives
  /\ lifo = NoLifo
  /\ patch = [on |-> FALSE, phase |-> "none", pre |-> <<>>, s |-> 0, mid |-> <<>>, final |-> <<>>]
  /\ rt = NoRt
  /\ wire = NoWire
  /\ regions = NoRegions
  /\ session = NoSession
  /\ via = NoVia

SaveBinary ==
  \E d \in Buffers : \E n \in 0..Len(d) :
    /\ saveBinary(d, Len(d), n)
    /\ patch' = PatchSave(d, n)
    /\ lifo' = LifoOther
    /\ wire' = WireSave(d, Len(d), n)
    /\ regions' = RegionKeep
    /\ UNCHANGED <<rt, session, via>>

PushPosition ==
  \E size \in 0..MaxSize : \E ok \in [1..size -> BOOLEAN] :
    /\ pushPosition(size, ok)
    /\ lifo' = LifoPush(tellp(itsStream))
    /\ patch' = PatchPush(size, Cardinality({i \in 1..size : ok[i]}))
    /\ wire' = WirePush(size, Cardinality({i \in 1..size : ok[i]}))
    /\ regions' = RegionPush(size, Cardinality({i \in 1..size : ok[i]}))
    /\ session' = SessionPush
    /\ UNCHANGED <<rt, via>>

PopPosition ==
  /\ popPosition
  /\ lifo' = LifoPop
  /\ patch' = PatchPop
  /\ wire' = WireStop
  /\ regions' = RegionPop
  /\ session' = SessionPop(last'.ret)
  /\ UNCHANGED <<rt, via>>

ResetPosition ==
  /\ resetPosition
  /\ patch' = NoPatch
  /\ lifo' = LifoOther
  /\ wire' = WireStop
  /\ regions' = RegionKeep
  /\ UNCHANGED <<rt, session, via>>

ResetPositionLoop ==
  /\ resetPositionLoop
  /\ lifo' = LifoPop
  /\ session' = SessionPop(IF last'.ret = "running" THEN "false" ELSE "true")
  /\ UNCHANGED <<patch, rt, wire, regions, via>>

\* A BinaryOutputArchive and the calls made on it, in any order.
Next ==
  \/ SaveBinary
  \/ PushPosition
  \/ PopPosition
  \/ ResetPosition
  \/ ResetPositionLoop

Spec == Init /\ [][Next]_vars

\* The same behaviours with the markers recorded in lifo.
LifoInit ==
  /\ InitArchives
  /\ lifo = [NoLifo EXCEPT !.on = TRUE]
  /\ patch = [on |-> FALSE, phase |-> "none", pre |-> <<>>, s |-> 0, mid |-> <<>>, final |-> <<>>]
  /\ rt = NoRt
  /\ wire = NoWire
  /\ regions = NoRegions
  /\ session = NoSession
  /\ via = NoVia

LifoSpec == LifoInit /\ [][Next]_vars

\* resetPosition, once called, runs to its end: the caller is blocked in it.
FairSpec == Spec /\ WF_vars(ResetPositionLoop)

\* The same behaviours with patch sequences recorded in patch.
PatchInit ==
  /\ InitArchives
  /\ lifo = NoLifo
  /\ patch = [on |-> TRUE, phase |-> "none", pre |-> <<>>, s |-> 0, mid |-> <<>>, final |-> <<>>]
  /\ rt = NoRt
  /\ wire = NoWire
  /\ regions = NoRegions
  /\ session = NoSession
  /\ via = NoVia

PatchSpec == PatchInit /\ [][Next]_vars

\* At most this many values are saved in one session.
MaxValues == MaxLen

\* The array types T[count], T arithmetic of w bytes, as <<count, w>>.
ArrayTypes == {cw \in (1..MaxSize) \X ArithmeticSizes : cw[1] * cw[2] <= MaxSize}

\* All arrays of these types.
Arrays == UNION {[1..cw[1] -> Bytes(cw[2])] : cw \in ArrayTypes}

\* An array of type cw to load into.
Blank(cw) == [i \in 1..cw[1] |-> [j \in 1..cw[2] |-> 0]]

Saving == ~rt.open /\ Len(rt.vals) < MaxValues

SaveArithmetic ==
  \E w \in ArithmeticSizes : \E t \in Bytes(w) : \E n \in 0..MaxSize :
    /\ Saving
    /\ save_arithmetic(t, n)
    /\ rt' = RtSave(t, last'.ret)
    /\ via' = Via("arithmetic", <<>>, "")
    /\ UNCHANGED <<lifo, patch, wire, regions, session>>

SaveArray ==
  \E array \in Arrays : \E n \in 0..MaxSize :
    /\ Saving
    /\ save_array(array, n)
    /\ rt' = RtSave(Flatten(array), last'.ret)
    /\ via' = Via("array", array, "")
    /\ UNCHANGED <<lifo, patch, wire, regions, session>>

SaveBinaryData ==
  \E d \in Buffers : \E n \in 0..MaxSize :
    /\ Saving
    /\ save_BinaryData([data |-> d, size |-> Len(d)], n)
    /\ rt' = RtSave(d, last'.ret)
    /\ via' = Via("BinaryData", <<>>, "")
    /\ UNCHANGED <<lifo, patch, wire, regions, session>>

OpenReader ==
  /\ ~rt.open
  /\ BinaryInputArchive
  /\ rt' = [rt EXCEPT !.open = TRUE]
  /\ via' = Via("none", <<>>, "")
  /\ UNCHANGED <<lifo, patch, wire, regions, session>>

LoadArithmetic ==
  \E w \in ArithmeticSizes :
    /\ rt.open
    /\ load_arithmetic(w)
    /\ rt' = RtLoad(w)
    /\ via' = Via("arithmetic", <<>>, "")
    /\ UNCHANGED <<lifo, patch, wire, regions, session>>

LoadArray ==
  \E cw \in ArrayTypes :
    /\ rt.open
    /\ load_array(Blank(cw))
    /\ rt' = RtLoad(cw[1] * cw[2])
    /\ via' = Via("array", Blank(cw), "")
    /\ UNCHANGED <<lifo, patch, wire, regions, session>>

LoadBinaryData ==
  \E size \in 0..MaxSize :
    /\ rt.open
    /\ load_BinaryData(size)
    /\ rt' = RtLoad(size)
    /\ via' = Via("BinaryData", <<>>, "")
    /\ UNCHANGED <<lifo, patch, wire, regions, session>>

\* A session of saves through the adapters, then a BinaryInputArchive over
\* the bytes written and loads through the adapters.
ReadNext ==
  \/ SaveArithmetic
  \/ SaveArray
  \/ SaveBinaryData
  \/ OpenReader
  \/ LoadArithmetic
  \/ LoadArray
  \/ LoadBinaryData

ReadSpec == Init /\ [][ReadNext]_vars

\* The same behaviours as Spec with the bytes asked for recorded in wire.
WireInit ==
  /\ InitArchives
  /\ lifo = NoLifo
  /\ patch = [on |-> FALSE, phase |-> "none", pre |-> <<>>, s |-> 0, mid |-> <<>>, final |-> <<>>]
  /\ rt = NoRt
  /\ wire = [NoWire EXCEPT !.on = TRUE]
  /\ regions = NoRegions
  /\ session = NoSession
  /\ via = NoVia

WireSpec == WireInit /\ [][Next]_vars

\* The same behaviours with the placeholders recorded in regions.
RegionInit ==
  /\ InitArchives
  /\ lifo = NoLifo
  /\ patch = [on |-> FALSE, phase |-> "none", pre |-> <<>>, s |-> 0, mid |-> <<>>, final |-> <<>>]
  /\ rt = NoRt
  /\ wire = NoWire
  /\ regions = [NoRegions EXCEPT !.on = TRUE]
  /\ session = NoSession
  /\ via = NoVia

RegionSpec == RegionInit /\ [][Next]_vars

\* The names given to values.
Names == {"x", "y"}

\* The values saved under a name.
Values ==
  {Typed("arithmetic", t) : t \in UNION {Bytes(w) : w \in ArithmeticSizes}}
    \cup {Typed("array", array) : array \in Arrays}
    \cup {Typed("BinaryData", [data |-> d, size |-> Len(d)]) : d \in Buffers}

\* The values loaded into under a name: one of every type.
Blanks == {value \in Values : \A i \in 1..Len(ValueBytes(value)) : ValueBytes(value)[i] = 0}

SaveNameValuePair ==
  \E name \in Names : \E value \in Values : \E n \in 0..MaxSize :
    /\ Saving
    /\ serialize_save([name |-> name, value |-> value], n)
    /\ rt' = RtSave(last'.arg, last'.ret)
    /\ via' = Via("NameValuePair", value, name)
    /\ UNCHANGED <<lifo, patch, wire, regions, session>>

LoadNameValuePair ==
  \E name \in Names : \E value \in Blanks :
    /\ rt.open
    /\ serialize_load([name |-> name, value |-> value])
    /\ rt' = RtLoad(last'.req)
    /\ via' = Via("NameValuePair", value, name)
    /\ UNCHANGED <<lifo, patch, wire, regions, session>>

\* The sessions of ReadSpec with the calls of the array adapters recorded
\* in via.
ArrayInit ==
  /\ InitArchives
  /\ lifo = NoLifo
  /\ patch = [on |-> FALSE, phase |-> "none", pre |-> <<>>, s |-> 0, mid |-> <<>>, final |-> <<>>]
  /\ rt = NoRt
  /\ wire = NoWire
  /\ regions = NoRegions
  /\ session = NoSession
  /\ via = [NoVia EXCEPT !.on = {"array"}]

ArraySpec == ArrayInit /\ [][ReadNext]_vars

\* The same sessions with values also saved and loaded under names, those
\* calls recorded in via, and the values saved not recorded in rt.
NameInit ==
  /\ InitArchives
  /\ lifo = NoLifo
  /\ patch = [on |-> FALSE, phase |-> "none", pre |-> <<>>, s |-> 0, mid |-> <<>>, final |-> <<>>]
  /\ rt = [NoRt EXCEPT !.clean = FALSE]
  /\ wire = NoWire
  /\ regions = NoRegions
  /\ session = NoSession
  /\ via = [NoVia EXCEPT !.on = {"NameValuePair"}]

NameNext ==
  \/ ReadNext
  \/ SaveNameValuePair
  \/ LoadNameValuePair

NameSpec == NameInit /\ [][NameNext]_vars

\* Either a writer and the calls made on it, or a session in which at
\* most one placeholder is reserved and values saved, then loaded back; in both
\* the calls that change the position stack are counted in session.net, and
\* the values saved are not recorded in rt.
SessionInit ==
  /\ InitArchives
  /\ lifo = NoLifo
  /\ patch = [on |-> FALSE, phase |-> "none", pre |-> <<>>, s |-> 0, mid |-> <<>>, final |-> <<>>]
  /\ rt = [NoRt EXCEPT !.clean = FALSE]
  /\ wire = NoWire
  /\ regions = NoRegions
  /\ session \in {[NoSession EXCEPT !.kind = k] : k \in {"writer", "reader"}}
  /\ via = NoVia

SessionNext ==
  \/ session.kind = "writer" /\ Next
  \/ session.kind = "reader" /\ ReadNext
  \/ session.kind = "reader" /\ ~rt.open /\ itsPositionStack = <<>> /\ PushPosition

SessionSpec == SessionInit /\ [][SessionNext]_vars

(* ------------------------------ properties ---------------------------- *)

\* The stream after d is put at position p of b, overwriting or extending.
Patched(b, p, d) ==
  [i \in 1..Max(Len(b), p + Len(d)) |-> IF i > p /\ i <= p + Len(d) THEN d[i - p] ELSE b[i]]

Zeros(n) == [i \in 1..n |-> 0]

\* C1: after pushPosition(s), any writes, popPosition, saveBinary(final, s)
\* and popPosition on the now empty stack, every write being accepted in
\* full, the stream is what preceded the sequence, then the final value in
\* the placeholder's place, then the intervening writes; its length is the
\* sum of the sizes written once each, and the put position is at its end.
C1_PlaceholderPatch ==
  patch.phase = "done" =>
    /\ Len(patch.final) = patch.s
    /\ itsStream.bytes = patch.pre \o patch.final \o patch.mid
    /\ Len(itsStream.bytes) = Len(patch.pre) + patch.s + Len(patch.mid)
    /\ tellp(itsStream) = Len(itsStream.bytes)
    /\ itsPositionStack = <<>>

C1_Witness ==
  /\ patch.phase = "done"
  /\ patch.s > 0
  /\ patch.mid # <<>>
  /\ patch.pre = <<>>
  /\ \E i \in 1..Len(patch.final) : patch.final[i] # 0

\* C2: with n markers outstanding, the k-th of consecutive popPosition
\* calls (k <= n) returns false and leaves the stream at the (n-k+1)-th
\* marker pushed; the calls after the n-th return true and leave the stream
\* at its end.
C2_StackDiscipline ==
  (lifo.on /\ last.op = "popPosition") =>
    LET n == Len(lifo.log)
        k == lifo.pops
    IN  IF k <= n
        THEN last.ret = "false" /\ tellp(itsStream) = lifo.log[n - k + 1]
        ELSE last.ret = "true" /\ tellp(itsStream) = Len(itsStream.bytes)

C2_Witness ==
  /\ last.op = "popPosition"
  /\ last.ret = "true"
  /\ Len(lifo.log) = 3
  /\ lifo.pops = 4
  /\ lifo.log[1] < lifo.log[2]
  /\ lifo.log[2] < lifo.log[3]

\* C3: values saved to an empty stream with no short write are read back, by
\* loads that ask for the same sizes in the same order, byte for byte, and
\* no such load fails; the stream holds the values' bytes one after the
\* other, its length being the sum of their sizes.
C3_RoundTrip ==
  /\ rt.clean => itsStream.bytes = Flatten(rt.vals)
  /\ (rt.open /\ rt.clean /\ rt.sync /\ last.op = "loadBinary") =>
       /\ rt.idx >= 1
       /\ last.ret = "void"
       /\ data = rt.vals[rt.idx]
       /\ itsStreamIn.g = Len(Flatten(SubSeq(rt.vals, 1, rt.idx)))

C3_Witness ==
  /\ rt.open /\ rt.clean /\ rt.sync
  /\ last.op = "loadBinary"
  /\ Len(rt.vals) = 3
  /\ rt.idx = 3
  /\ \A i \in 1..3 : Len(rt.vals[i]) = 1
  /\ rt.vals[1] # rt.vals[2]
  /\ data # <<0>>

\* C6: loadBinary(buffer, size) with at least size bytes left in the source
\* copies exactly the next size bytes and advances the get position by size;
\* with fewer left it throws.  The source's bytes are never changed and
\* the get position never moves back.
C6_LoadBinary ==
  [][last'.op = "loadBinary" =>
       LET size == last'.req
           g == itsStreamIn.g
       IN  /\ itsStreamIn'.bytes = itsStreamIn.bytes
           /\ itsStreamIn'.g >= g
           /\ IF Len(itsStreamIn.bytes) - g >= size
              THEN /\ last'.ret = "void"
                   /\ data' = SubSeq(itsStreamIn.bytes, g + 1, g + size)
                   /\ itsStreamIn'.g = g + size
              ELSE last'.ret = "Exception"]_vars

C6_Witness ==
  /\ last.op = "loadBinary"
  /\ last.ret = "void"
  /\ last.req = 2
  /\ itsStreamIn.g = 3
  /\ data[1] # data[2]

\* C4: a write of which the sink accepted fewer bytes than were asked,
\* by saveBinary or by pushPosition, ends in an exception.
C4_ShortWriteSurfaced ==
  (last.op \in {"saveBinary", "pushPosition"} /\ last.got < last.req) => last.ret = "Exception"

\* C5: saveBinary throws exactly when the sink accepted fewer than size
\* bytes; when it returns normally all size bytes of data are in the stream
\* just before the put position.
C5_SaveBinaryThrowsIffShort ==
  last.op = "saveBinary" =>
    /\ (last.ret = "Exception") <=> (last.got < last.req)
    /\ (last.ret = "void") <=> (last.got = last.req)
    /\ last.ret = "void" =>
         SubSeq(itsStream.bytes, tellp(itsStream) - last.req + 1, tellp(itsStream)) = last.arg

C5_Witness ==
  /\ last.op = "saveBinary"
  /\ last.ret = "Exception"
  /\ last.req = 2
  /\ last.got = 1

\* C7: popPosition with markers outstanding seeks to the marker pushed last,
\* removes that marker only and returns false; with none it seeks to the
\* end of the stream and returns true.  It never changes the stream's bytes.
C7_PopPosition ==
  [][last'.op = "popPosition" =>
       /\ itsStream'.bytes = itsStream.bytes
       /\ IF itsPositionStack # <<>>
          THEN /\ tellp(itsStream') = itsPositionStack[Len(itsPositionStack)]
               /\ itsPositionStack' = SubSeq(itsPositionStack, 1, Len(itsPositionStack) - 1)
               /\ last'.ret = "false"
          ELSE /\ tellp(itsStream') = Len(itsStream.bytes)
               /\ itsPositionStack' = <<>>
               /\ last'.ret = "true"]_vars

C7_Witness ==
  /\ last.op = "popPosition"
  /\ last.ret = "false"
  /\ Len(itsPositionStack) >= 1
  /\ tellp(itsStream) < Len(itsStream.bytes)
  /\ itsPositionStack[1] < tellp(itsStream)

\* C8: resetPosition returns, whatever the markers outstanding and the put
\* position; when it returns the stack is empty and the stream is at its
\* end; at no point does it change the stream's bytes.
C8_ResetPosition ==
  /\ [][/\ (pc = "idle" /\ pc' = "reset") => UNCHANGED <<itsStream, itsPositionStack>>
        /\ pc = "reset" => itsStream'.bytes = itsStream.bytes
        /\ (pc = "reset" /\ pc' = "idle") =>
             itsPositionStack' = <<>> /\ tellp(itsStream') = Len(itsStream'.bytes)]_vars
  /\ (pc = "reset") ~> (pc = "idle")

C8_Witness ==
  /\ pc = "idle"
  /\ last.op = "resetPosition"
  /\ last.ret = "void"
  /\ last.got = 4
  /\ itsPositionStack = <<>>
  /\ tellp(itsStream) = Len(itsStream.bytes)
  /\ \E i \in 1..Len(itsStream.bytes) : itsStream.bytes[i] # 0

\* C9: pushPosition(size) with the put position at p, on a sink that accepts
\* every character, pushes p and nothing else, leaves size zero bytes at
\* [p, p+size) and the put position at p+size, and changes no other byte.
C9_PushPosition ==
  [][(last'.op = "pushPosition" /\ last'.got = last'.req) =>
       LET p == tellp(itsStream)
           size == last'.req
       IN  /\ itsPositionStack' = Append(itsPositionStack, p)
           /\ tellp(itsStream') = p + size
           /\ itsStream'.bytes = Patched(itsStream.bytes, p, Zeros(size))
           /\ size = 0 => itsStream'.bytes = itsStream.bytes]_vars

C9_Witness ==
  /\ last.op = "pushPosition"
  /\ last.req = 2
  /\ last.got = 2
  /\ Len(itsPositionStack) = 2
  /\ itsPositionStack[2] = 1
  /\ \E i \in 1..Len(itsStream.bytes) : itsStream.bytes[i] # 0

\* C10: saveBinary(data, size) with the put position at p, on a sink that
\* accepts every byte, leaves data at [p, p+size), the put position at
\* p+size, every other byte as it was and the stream as long as the longer
\* of its old length and p+size: it overwrites, and extends only at the end.
C10_SaveBinary ==
  [][(last'.op = "saveBinary" /\ last'.got = last'.req) =>
       LET p == tellp(itsStream)
           size == last'.req
       IN  /\ Len(last'.arg) = size
           /\ tellp(itsStream') = p + size
           /\ itsStream'.bytes = Patched(itsStream.bytes, p, last'.arg)
           /\ Len(itsStream'.bytes) = Max(Len(itsStream.bytes), p + size)
           /\ itsPositionStack' = itsPositionStack]_vars

C10_Witness ==
  /\ last.op = "saveBinary"
  /\ last.got = last.req
  /\ last.req = 2
  /\ tellp(itsStream) < Len(itsStream.bytes)
  /\ last.arg[1] # 0

\* C11: as long as only saveBinary and pushPosition have been called on a
\* writer constructed on an empty stream, every call accepted in full, the
\* stream is the concatenation, in call order, of each saveBinary's bytes
\* and of size zero bytes for each pushPosition(size), nothing else; its
\* length is the sum of the sizes asked for, and the put position is there.
C11_WireFormat ==
  (wire.on /\ wire.valid) =>
    /\ itsStream.bytes = wire.cat
    /\ Len(itsStream.bytes) = wire.sum
    /\ tellp(itsStream) = wire.sum

C11_Witness ==
  /\ wire.on /\ wire.valid
  /\ itsPositionStack = <<1>>
  /\ last.op = "saveBinary" /\ last.req = 1
  /\ wire.cat = <<1, 0, 1>>

\* C12: the placeholder [m, m + size) of every marker still on the stack
\* holds only zero bytes, size being the bytes the sink accepted of those
\* pushPosition offered (all of them on a sink that accepts every byte), and
\* so do the placeholders of the markers a resetPosition has just discarded.
C12_PlaceholdersZero ==
  regions.on =>
    \A k \in 1..Len(regions.list) :
      \A i \in regions.list[k].m + 1..regions.list[k].m + regions.list[k].size :
        i <= Len(itsStream.bytes) /\ itsStream.bytes[i] = 0

C12_Witness ==
  /\ regions.on
  /\ last.op = "resetPosition" /\ last.ret = "void"
  /\ regions.list = <<[m |-> 0, size |-> 1], [m |-> 2, size |-> 1]>>
  /\ itsStream.bytes = <<0, 1, 0>>
  /\ itsPositionStack = <<>>

\* C13: save(ar, array) accepted in full leaves the stream, its length and
\* the put position as the scalar saves of the elements in index order
\* leave them; load(ar, array) that succeeds yields the elements and the
\* get position that as many scalar loads yield; and when the loads follow
\* the saves in order and size, the array loaded is the bytes saved.
C13_ArrayAsElements ==
  [][via'.adapter = "array" =>
       /\ (last'.op = "saveBinary" /\ last'.ret = "void") =>
            itsStream' = saveElements(itsStream, via'.value)
       /\ (last'.op = "loadBinary" /\ last'.ret = "void") =>
            LET r == loadElements(itsStreamIn, sizeof_array(via'.value), sizeof_element(via'.value)) IN
              /\ data' = Flatten(r.elems)
              /\ \A i \in 1..Len(r.elems) : Len(r.elems[i]) = sizeof_element(via'.value)
              /\ itsStreamIn' = r.s
              /\ rt'.sync => data' = rt'.vals[rt'.idx]]_vars

C13_Witness ==
  /\ via.adapter = "array"
  /\ sizeof_array(via.value) = 2
  /\ last.op = "loadBinary" /\ last.ret = "void"
  /\ data = <<0, 1>>
  /\ rt.sync /\ rt.idx = 2

\* C14: serialize on a NameValuePair does to the archive exactly what the
\* adapter of the value's own type does with the value alone, whatever the
\* name: the same bytes written and put position on a BinaryOutputArchive,
\* the same bytes loaded and consumed on a BinaryInputArchive.
C14_NameValuePairTransparent ==
  [][via'.adapter = "NameValuePair" =>
       IF last'.op = "saveBinary"
       THEN CASE via'.value.kind = "arithmetic" -> save_arithmetic(via'.value.v, last'.got)
              [] via'.value.kind = "array" -> save_array(via'.value.v, last'.got)
              [] via'.value.kind = "BinaryData" -> save_BinaryData(via'.value.v, last'.got)
       ELSE CASE via'.value.kind = "arithmetic" -> load_arithmetic(Len(via'.value.v))
              [] via'.value.kind = "array" -> load_array(via'.value.v)
              [] via'.value.kind = "BinaryData" -> load_BinaryData(via'.value.v.size)]_vars

C14_Witness ==
  /\ via.adapter = "NameValuePair"
  /\ via.name = "y"
  /\ via.value.kind = "array"
  /\ last.op = "saveBinary" /\ last.ret = "void"
  /\ itsStream.bytes = <<1, 0, 1>>

\* C15: in every state of a writer constructed on an empty stream, the
\* markers on the stack are non-decreasing from bottom to top, the put
\* position is not below the top marker, and no marker is beyond the end of
\* the stream; so popPosition never seeks forward or past the end.
C15_MarkerOrdering ==
  /\ \A i \in 1..Len(itsPositionStack) - 1 : itsPositionStack[i] <= itsPositionStack[i + 1]
  /\ itsPositionStack # <<>> => top(itsPositionStack) <= tellp(itsStream)
  /\ \A i \in 1..Len(itsPositionStack) : itsPositionStack[i] <= Len(itsStream.bytes)

C15_Witness ==
  /\ last.op = "popPosition" /\ last.ret = "false"
  /\ itsPositionStack = <<0, 1>>
  /\ tellp(itsStream) = 1
  /\ Len(itsStream.bytes) = 2

\* C16: the position stack is empty at construction; saveBinary leaves it
\* as it is, whether it returns or throws; pushPosition puts exactly one
\* marker on top of it; popPosition takes exactly one off a non-empty stack
\* and leaves an empty one empty; so its size is the number of pushPosition
\* calls less the number of popPosition calls that returned false.  The
\* BinaryInputArchive's constructor and loadBinary leave the writer's
\* stream and stack as they are.
C16_StackFrame ==
  /\ itsPositionStack = <<>>
  /\ Len(itsPositionStack) = session.net
  /\ [][/\ Len(itsPositionStack') = session'.net
        /\ last'.op = "saveBinary" => itsPositionStack' = itsPositionStack
        /\ last'.op = "pushPosition" =>
             /\ Len(itsPositionStack') = Len(itsPositionStack) + 1
             /\ SubSeq(itsPositionStack', 1, Len(itsPositionStack)) = itsPositionStack
        /\ last'.op = "popPosition" =>
             IF itsPositionStack = <<>> THEN itsPositionStack' = <<>>
             ELSE itsPositionStack' = SubSeq(itsPositionStack, 1, Len(itsPositionStack) - 1)
        /\ last'.op \in {"BinaryInputArchive", "loadBinary"} =>
             UNCHANGED <<itsStream, itsPositionStack>>]_vars

C16_Witness ==
  /\ session.kind = "writer"
  /\ last.op = "popPosition" /\ last.ret = "false"
  /\ session.net = 2
  /\ Len(itsPositionStack) = 2

\* C17: a saveBinary that throws because the sink accepted k < size bytes
\* leaves the first k bytes of data in the stream at [p, p + k) and the put
\* position at p + k; a loadBinary that throws because only k < size bytes
\* remained has copied those k bytes to the caller's buffer and consumed
\* them.
C17_NoRollback ==
  [][/\ (last'.op = "saveBinary" /\ last'.got < last'.req) =>
          /\ last'.ret = "Exception"
          /\ itsStream'.bytes =
               Patched(itsStream.bytes, tellp(itsStream), SubSeq(last'.arg, 1, last'.got))
          /\ tellp(itsStream') = tellp(itsStream) + last'.got
     /\ (last'.op = "loadBinary" /\ last'.got < last'.req) =>
          /\ last'.ret = "Exception"
          /\ last'.got = Len(itsStreamIn.bytes) - itsStreamIn.g
          /\ data' = SubSeq(itsStreamIn.bytes, itsStreamIn.g + 1, itsStreamIn.g + last'.got)
          /\ itsStreamIn'.g = itsStreamIn.g + last'.got
          /\ itsStreamIn'.bytes = itsStreamIn.bytes]_vars

C17_Witness ==
  /\ session.kind = "writer"
  /\ last.op = "saveBinary" /\ last.ret = "Exception"
  /\ last.req = 2 /\ last.got = 1
  /\ last.arg = <<1, 1>>
  /\ itsStream = [bytes |-> <<0, 1, 0>>, p |-> 2]
====
